---- MODULE Spec2Model ----
(***************************************************************************)
(* MailShield: the /api/check route (src/src/app/api/check/route.ts).      *)
(*                                                                         *)
(* Text the code inspects (domains, host names, TXT records, selectors) is *)
(* a sequence of one-character strings, so that trimming, lower-casing,    *)
(* prefix tests, substring tests and the regular expressions are computed  *)
(* as the code computes them.  Text the code only compares for equality    *)
(* (issue sentences, fix sentences, statuses, grades, qualifiers) is a     *)
(* TLA+ string.  JavaScript null is Null for text values and "null" for    *)
(* the enumerated ones.                                                    *)
(***************************************************************************)
EXTENDS Integers, Sequences, FiniteSets, TLC

\* ------------------------------------------------------------------ text

Null == <<"null">>

LowerSeq == <<"a","b","c","d","e","f","g","h","i","j","k","l","m","n","o","p","q","r","s","t","u","v","w","x","y","z">>
UpperSeq == <<"A","B","C","D","E","F","G","H","I","J","K","L","M","N","O","P","Q","R","S","T","U","V","W","X","Y","Z">>
Lower == {LowerSeq[i] : i \in 1..26}
Upper == {UpperSeq[i] : i \in 1..26}
Digit == {"0","1","2","3","4","5","6","7","8","9"}
Alpha == Lower \cup Upper
AlNum == Alpha \cup Digit
Whitespace == {" ", "\t", "\n", "\r"}

\* String.prototype.toLowerCase, one character
ToLowerChar(c) ==
  IF c \in Upper THEN LowerSeq[CHOOSE i \in 1..26 : UpperSeq[i] = c] ELSE c

toLowerCase(s) == [i \in 1..Len(s) |-> ToLowerChar(s[i])]

RECURSIVE TrimStart(_)
TrimStart(s) ==
  IF s # <<>> /\ s[1] \in Whitespace THEN TrimStart(Tail(s)) ELSE s

RECURSIVE TrimEnd(_)
TrimEnd(s) ==
  IF s # <<>> /\ s[Len(s)] \in Whitespace
  THEN TrimEnd(SubSeq(s, 1, Len(s) - 1)) ELSE s

\* String.prototype.trim
trim(s) == TrimEnd(TrimStart(s))

\* String.prototype.startsWith
startsWith(s, p) == Len(s) >= Len(p) /\ SubSeq(s, 1, Len(p)) = p

\* p occurs in s at position i
OccursAt(s, p, i) ==
  i >= 1 /\ i + Len(p) - 1 <= Len(s) /\ SubSeq(s, i, i + Len(p) - 1) = p

\* String.prototype.includes
includes(s, p) == \E i \in 1..(Len(s) + 1) : OccursAt(s, p, i)

\* Array.prototype.join('') of the chunks of one TXT record
RECURSIVE join(_)
join(chunks) ==
  IF chunks = <<>> THEN <<>> ELSE Head(chunks) \o join(Tail(chunks))

\* the longest run of characters outside `stop` that starts at position i
RECURSIVE RunEnd(_, _, _)
RunEnd(s, i, stop) ==
  IF i <= Len(s) /\ s[i] \notin stop THEN RunEnd(s, i + 1, stop) ELSE i - 1

\* ------------------------------------------------------- validateDomain

MaxDomainLength == 253

HttpScheme == <<"h","t","t","p",":","/","/">>
HttpsScheme == <<"h","t","t","p","s",":","/","/">>

\* domain.replace(/^https?:\/\//, '')
StripProtocol(s) ==
  IF startsWith(s, HttpsScheme) THEN SubSeq(s, Len(HttpsScheme) + 1, Len(s))
  ELSE IF startsWith(s, HttpScheme) THEN SubSeq(s, Len(HttpScheme) + 1, Len(s))
  ELSE s

\* domain.split('/')[0]
BeforeSlash(s) == SubSeq(s, 1, RunEnd(s, 1, {"/"}))

\* [a-zA-Z]{2,}
AlphaLabel(t) == Len(t) >= 2 /\ \A k \in 1..Len(t) : t[k] \in Alpha

\* the hyphen allowed in the first character class too
FirstLabel_HyphenFirst(l) ==
  /\ Len(l) >= 1
  /\ \A k \in 1..Len(l) : l[k] \in AlNum \cup {"-"}

\* [a-zA-Z0-9][a-zA-Z0-9-]*[a-zA-Z0-9]*
FirstLabel(l) ==
  /\ Len(l) >= 1
  /\ l[1] \in AlNum
  /\ \A k \in 2..Len(l) : l[k] \in AlNum \cup {"-"}

\* ([a-zA-Z]{2,}|[a-zA-Z]{2,}\.[a-zA-Z]{2,})
DomainSuffix(t) ==
  \/ AlphaLabel(t)
  \/ \E j \in 1..Len(t) :
       /\ t[j] = "."
       /\ AlphaLabel(SubSeq(t, 1, j - 1))
       /\ AlphaLabel(SubSeq(t, j + 1, Len(t)))

\* domainRegex.test(domain)
domainRegexTest(s) ==
  \E i \in 1..Len(s) :
    /\ s[i] = "."
    /\ FirstLabel(SubSeq(s, 1, i - 1))
    /\ DomainSuffix(SubSeq(s, i + 1, Len(s)))

validateDomain(domain) ==
  IF domain = <<>> \/ Len(domain) > MaxDomainLength THEN FALSE
  ELSE domainRegexTest(BeforeSlash(StripProtocol(domain)))

\* ------------------------------------------------------------ lookupTXT

\* What dns.resolveTxt does for one host name: it rejects (ok = FALSE), or it
\* resolves with the records, each an array of chunks.
Rejected == [ok |-> FALSE, rrs |-> <<>>]
Resolved(rrs) == [ok |-> TRUE, rrs |-> rrs]

\* lookupTXT without its try/catch: a rejection of the resolver propagates
lookupTXT_NoCatch(answer) ==
  [threw |-> ~answer.ok,
   value |-> [i \in 1..Len(answer.rrs) |-> join(answer.rrs[i])]]

\* lookupTXT catches everything and returns [] instead
lookupTXT(answer) ==
  [threw |-> FALSE,
   value |-> IF answer.ok
             THEN [i \in 1..Len(answer.rrs) |-> join(answer.rrs[i])]
             ELSE <<>>]

\* ------------------------------------------------------------- parseSPF

SpfPrefix == <<"v","=","s","p","f","1">>
IncludeTag == <<"i","n","c","l","u","d","e",":">>

NoSpfIssue == "No SPF record found"
MultipleSpfIssue == "Multiple SPF records found - this causes ambiguity"
MissingAllIssue == "Missing \"all\" mechanism"
TooManyIncludesIssue ==
  "Too many include mechanisms (>10) may cause DNS lookup limits"
PlusAllIssue ==
  "Using \"+all\" is overly permissive and allows any server to send email"

\* ten includes are already too many
MaxIncludes_Nine == 10 - 1

MaxIncludes == 10

\* the if / else if chain over record.includes(...)
SpfQualifier(record) ==
  IF includes(record, <<"-","a","l","l">>) THEN "fail"
  ELSE IF includes(record, <<"~","a","l","l">>) THEN "softfail"
  ELSE IF includes(record, <<"?","a","l","l">>) THEN "neutral"
  ELSE IF includes(record, <<"+","a","l","l">>) THEN "pass"
  ELSE "null"

\* record.match(/include:([^\s]+)/g): the matches from position `from` on,
\* leftmost first, each as long as it can be, none overlapping another
RECURSIVE IncludeMatches(_, _)
IncludeMatches(s, from) ==
  LET starts == {i \in from..Len(s) :
                   /\ OccursAt(s, IncludeTag, i)
                   /\ i + Len(IncludeTag) <= Len(s)
                   /\ s[i + Len(IncludeTag)] \notin Whitespace}
  IN IF starts = {} THEN <<>>
     ELSE LET i == CHOOSE x \in starts : \A y \in starts : x <= y
              e == RunEnd(s, i + Len(IncludeTag), Whitespace)
          IN <<SubSeq(s, i, e)>> \o IncludeMatches(s, e + 1)

\* the matches as they are, the tag left in place
SpfIncludes_WholeMatch(record) == IncludeMatches(record, 1)

\* match.replace('include:', ''): every match starts with the tag
SpfIncludes(record) ==
  LET m == IncludeMatches(record, 1)
  IN [k \in 1..Len(m) |-> SubSeq(m[k], Len(IncludeTag) + 1, Len(m[k]))]

\* the version tag anywhere in the record
IsSpfRecord_Anywhere(r) == includes(r, SpfPrefix)

IsSpfRecord(r) == startsWith(r, SpfPrefix)

\* the first of several SPF records is interpreted like a single one
parseSPF_InterpretFirst(records) ==
  LET spfRecords == SelectSeq(records, IsSpfRecord)
  IN IF Len(spfRecords) = 0
     THEN [present |-> FALSE, record |-> Null, qualifier |-> "null",
           includes |-> <<>>, issues |-> <<NoSpfIssue>>]
     ELSE LET record == spfRecords[1]
              qualifier == SpfQualifier(record)
              incl == SpfIncludes(record)
              issues ==
                (IF Len(spfRecords) > 1 THEN <<MultipleSpfIssue>> ELSE <<>>)
                \o (IF qualifier = "null" THEN <<MissingAllIssue>> ELSE <<>>)
                \o (IF Len(incl) > MaxIncludes
                    THEN <<TooManyIncludesIssue>> ELSE <<>>)
                \o (IF qualifier = "pass" THEN <<PlusAllIssue>> ELSE <<>>)
          IN [present |-> TRUE, record |-> record, qualifier |-> qualifier,
              includes |-> incl, issues |-> issues]

parseSPF(records) ==
  LET spfRecords == SelectSeq(records, IsSpfRecord)
  IN IF Len(spfRecords) = 0
     THEN [present |-> FALSE, record |-> Null, qualifier |-> "null",
           includes |-> <<>>, issues |-> <<NoSpfIssue>>]
     ELSE IF Len(spfRecords) > 1
     THEN [present |-> TRUE, record |-> spfRecords[1], qualifier |-> "null",
           includes |-> <<>>, issues |-> <<MultipleSpfIssue>>]
     ELSE LET record == spfRecords[1]
              qualifier == SpfQualifier(record)
              incl == SpfIncludes(record)
              issues ==
                (IF qualifier = "null" THEN <<MissingAllIssue>> ELSE <<>>)
                \o (IF Len(incl) > MaxIncludes
                    THEN <<TooManyIncludesIssue>> ELSE <<>>)
                \o (IF qualifier = "pass" THEN <<PlusAllIssue>> ELSE <<>>)
          IN [present |-> TRUE, record |-> record, qualifier |-> qualifier,
              includes |-> incl, issues |-> issues]

\* ----------------------------------------------------------- parseDMARC

DmarcPrefix == <<"v","=","D","M","A","R","C","1">>
PolicyNone == <<"n","o","n","e">>
PolicyQuarantine == <<"q","u","a","r","a","n","t","i","n","e">>
PolicyReject == <<"r","e","j","e","c","t">>

NoDmarcIssue == "No DMARC record found"
PolicyNoneIssue ==
  "Policy is set to \"none\" - no action taken on failed emails"
NoRuaIssue == "No aggregate reporting address (rua) configured"

\* record.match(/<tag>([^;]+)/): group 1 of the leftmost match, or Null
TagValue(record, tag) ==
  LET starts == {i \in 1..Len(record) :
                   /\ OccursAt(record, tag, i)
                   /\ i + Len(tag) <= Len(record)
                   /\ record[i + Len(tag)] # ";"}
  IN IF starts = {} THEN Null
     ELSE LET i == CHOOSE x \in starts : \A y \in starts : x <= y
          IN SubSeq(record, i + Len(tag), RunEnd(record, i + Len(tag), {";"}))

IsDmarcRecord(r) == startsWith(r, DmarcPrefix)

parseDMARC(records) ==
  LET dmarcRecords == SelectSeq(records, IsDmarcRecord)
  IN IF Len(dmarcRecords) = 0
     THEN [present |-> FALSE, record |-> Null, policy |-> Null, rua |-> Null,
           issues |-> <<NoDmarcIssue>>]
     ELSE LET record == dmarcRecords[1]
              policyMatch == TagValue(record, <<"p","=">>)
              policy == IF policyMatch # Null THEN policyMatch ELSE PolicyNone
              rua == TagValue(record, <<"r","u","a","=">>)
              issues ==
                (IF policy = PolicyNone THEN <<PolicyNoneIssue>> ELSE <<>>)
                \o (IF rua = Null THEN <<NoRuaIssue>> ELSE <<>>)
          IN [present |-> TRUE, record |-> record, policy |-> policy,
              rua |-> rua, issues |-> issues]

\* ------------------------------------------------------------ checkDKIM

DKIM_SELECTORS ==
  << <<"d","e","f","a","u","l","t">>, <<"g","o","o","g","l","e">>, <<"s","1">>, <<"s","2">>, <<"s","e","l","e","c","t","o","r","1">>, <<"s","e","l","e","c","t","o","r","2">>,
     <<"m","a","n","d","r","i","l","l">>, <<"p","o","s","t","m","a","r","k">>, <<"p","m">>, <<"k","1">>, <<"k","2">>, <<"m","a","i","l">> >>

NoDkimIssue == "No DKIM selectors found (checked common selectors)"

\* `${selector}._domainkey.${domain}`
DkimHost(selector, domain) == selector \o <<".","_","d","o","m","a","i","n","k","e","y",".">> \o domain

\* `_dmarc.${cleanDomain}`
DmarcHost(domain) == <<"_","d","m","a","r","c",".">> \o domain

\* record.includes('k=') || record.includes('p=')
IsDkimRecord(r) == includes(r, <<"k","=">>) \/ includes(r, <<"p","=">>)

\* any record at all counts as a key
SelectorFound_AnyRecord(records) == Len(records) > 0

\* the body of one iteration of the selector loop, after its lookup returned
SelectorFound(records) ==
  /\ Len(records) > 0
  /\ \E k \in 1..Len(records) : IsDkimRecord(records[k])

\* the issue of an empty selector list forgotten
DkimResult_NoIssue(foundSelectors) ==
  [present |-> Len(foundSelectors) > 0,
   selectors |-> foundSelectors,
   issues |-> <<>>]

\* what checkDKIM returns once the loop is over
DkimResult(foundSelectors) ==
  [present |-> Len(foundSelectors) > 0,
   selectors |-> foundSelectors,
   issues |-> IF Len(foundSelectors) = 0 THEN <<NoDkimIssue>> ELSE <<>>]

\* ------------------------------------------------------- calculateScore

BaseScore == 60
MinScore == 0
MaxScore == 100

Min(a, b) == IF a <= b THEN a ELSE b
Max(a, b) == IF a >= b THEN a ELSE b

\* no clamping at all
Clamp_None(score) == score

\* Math.max(0, Math.min(100, score))
Clamp(score) == Max(MinScore, Min(MaxScore, score))

\* the bonus for a present record granted whatever its issues
SpfRawScore_BonusDespiteIssues(spf) ==
  BaseScore
  + (IF spf.present THEN 20 ELSE 0)
  + (IF spf.qualifier = "fail" THEN 20
     ELSE IF spf.qualifier = "softfail" THEN 10 ELSE 0)
  - Len(spf.issues) * 10

SpfRawScore(spf) ==
  BaseScore
  + (IF spf.present /\ Len(spf.issues) = 0 THEN 20 ELSE 0)
  + (IF spf.qualifier = "fail" THEN 20
     ELSE IF spf.qualifier = "softfail" THEN 10 ELSE 0)
  - Len(spf.issues) * 10

\* the selector bonus without its cap
DkimRawScore_UncappedBonus(dkim) ==
  BaseScore
  + (IF dkim.present THEN 20 ELSE 0)
  + Len(dkim.selectors) * 10
  - Len(dkim.issues) * 10

DkimRawScore(dkim) ==
  BaseScore
  + (IF dkim.present THEN 20 ELSE 0)
  + Min(Len(dkim.selectors) * 10, 20)
  - Len(dkim.issues) * 10

\* no bonus for the reporting address
DmarcRawScore_NoRuaBonus(dmarc) ==
  BaseScore
  + (IF dmarc.present THEN 20 ELSE 0)
  + (IF dmarc.policy = PolicyReject THEN 20
     ELSE IF dmarc.policy = PolicyQuarantine THEN 10 ELSE 0)
  - Len(dmarc.issues) * 10

DmarcRawScore(dmarc) ==
  BaseScore
  + (IF dmarc.present THEN 20 ELSE 0)
  + (IF dmarc.policy = PolicyReject THEN 20
     ELSE IF dmarc.policy = PolicyQuarantine THEN 10 ELSE 0)
  + (IF dmarc.rua # Null THEN 10 ELSE 0)
  - Len(dmarc.issues) * 10

calculateScore(spf, dkim, dmarc) ==
  [spfScore |-> Clamp(SpfRawScore(spf)),
   dkimScore |-> Clamp(DkimRawScore(dkim)),
   dmarcScore |-> Clamp(DmarcRawScore(dmarc))]

\* pass only above 80
getStatus_StrictPass(score) ==
  IF score > 80 THEN "pass" ELSE IF score >= 60 THEN "warn" ELSE "fail"

getStatus(score) ==
  IF score >= 80 THEN "pass" ELSE IF score >= 60 THEN "warn" ELSE "fail"

\* ---------------------------------------------------------------- getFix

SpfFixCreate ==
  "Create an SPF record in your DNS: \"v=spf1 include:_spf.google.com ~all\" (adjust for your email provider)"
SpfFixDuplicates ==
  "Remove duplicate SPF records - only one SPF record is allowed per domain"
SpfFixPlusAll ==
  "Change \"+all\" to \"~all\" or \"-all\" to prevent unauthorized email sending"
SpfFixAddAll ==
  "Add an \"all\" mechanism to your SPF record (recommended: \"~all\" or \"-all\")"
SpfFixReview ==
  "Review your SPF record for potential issues with includes or syntax"
DkimFixConfigure ==
  "Configure DKIM signing with your email provider and publish DKIM public keys in DNS"
DkimFixOk == "DKIM appears to be configured correctly"
DmarcFixCreate ==
  "Create a DMARC record: \"_dmarc.yourdomain.com TXT v=DMARC1; p=quarantine; rua=mailto:dmarc@yourdomain.com\""
DmarcFixUpgradeNone ==
  "Upgrade DMARC policy from \"none\" to \"quarantine\" or \"reject\" for better protection"
DmarcFixAddRua ==
  "Add aggregate reporting to your DMARC record: \"rua=mailto:dmarc@yourdomain.com\""
DmarcFixConsiderReject ==
  "Consider upgrading to \"p=reject\" for maximum protection"
NoFix == "No specific recommendations available"

\* data.issues?.includes(issue)
HasIssue(issues, issue) == \E k \in 1..Len(issues) : issues[k] = issue

\* +all is looked at before the duplicates
getFix_PermissiveFirst(type, data) ==
  IF type = "spf" THEN
    IF ~data.present THEN SpfFixCreate
    ELSE IF data.qualifier = "pass" THEN SpfFixPlusAll
    ELSE IF HasIssue(data.issues, MultipleSpfIssue) THEN SpfFixDuplicates
    ELSE IF data.qualifier = "null" THEN SpfFixAddAll
    ELSE SpfFixReview
  ELSE IF type = "dkim" THEN
    IF ~data.present THEN DkimFixConfigure ELSE DkimFixOk
  ELSE IF type = "dmarc" THEN
    IF ~data.present THEN DmarcFixCreate
    ELSE IF data.policy = PolicyNone THEN DmarcFixUpgradeNone
    ELSE IF data.rua = Null THEN DmarcFixAddRua
    ELSE DmarcFixConsiderReject
  ELSE NoFix

getFix(type, data) ==
  IF type = "spf" THEN
    IF ~data.present THEN SpfFixCreate
    ELSE IF HasIssue(data.issues, MultipleSpfIssue) THEN SpfFixDuplicates
    ELSE IF data.qualifier = "pass" THEN SpfFixPlusAll
    ELSE IF data.qualifier = "null" THEN SpfFixAddAll
    ELSE SpfFixReview
  ELSE IF type = "dkim" THEN
    IF ~data.present THEN DkimFixConfigure ELSE DkimFixOk
  ELSE IF type = "dmarc" THEN
    IF ~data.present THEN DmarcFixCreate
    ELSE IF data.policy = PolicyNone THEN DmarcFixUpgradeNone
    ELSE IF data.rua = Null THEN DmarcFixAddRua
    ELSE DmarcFixConsiderReject
  ELSE NoFix

\* ------------------------------------------------ calculateOverallGrade

\* the final return forgotten: no grade below 60
calculateOverallGrade_NoFallthrough(overallScore) ==
  IF overallScore >= 90 THEN "A"
  ELSE IF overallScore >= 80 THEN "B"
  ELSE IF overallScore >= 70 THEN "C"
  ELSE IF overallScore >= 60 THEN "D"
  ELSE "null"

calculateOverallGrade(overallScore) ==
  IF overallScore >= 90 THEN "A"
  ELSE IF overallScore >= 80 THEN "B"
  ELSE IF overallScore >= 70 THEN "C"
  ELSE IF overallScore >= 60 THEN "D"
  ELSE "F"

\* Math.floor in place of Math.round
RoundThird_Floor(sum) == sum \div 3

\* Math.round(sum / 3): the nearest integer, a half rounding up
RoundThird(sum) == (2 * sum + 3) \div 6

\* ------------------------------------------------------------------- GET

RequiredError == "Domain parameter is required"
InvalidError == "Invalid domain format"
FailedError ==
  "Failed to check domain. Please verify the domain exists and is publicly accessible."

\* the values in the order in which the promises settled
PromiseAll_InSettleOrder(names, done) ==
  [k \in 1..Len(names) |-> done[k].value]

\* Promise.all([...]): the values in the order of the promises given, whatever
\* the order in which they settled
PromiseAll(names, done) ==
  [k \in 1..Len(names) |->
     (CHOOSE e \in {done[j] : j \in 1..Len(done)} : e.name = names[k]).value]

\* Math.round((spfScore + dkimScore + dmarcScore) / 3)
OverallScore(s) == RoundThird(s.spfScore + s.dkimScore + s.dmarcScore)

\* the EmailAuthResult the handler assembles
BuildResult(domain, spfData, dkimData, dmarcData, now) ==
  LET s == calculateScore(spfData, dkimData, dmarcData)
      overallScore == OverallScore(s)
  IN [spf |-> [present |-> spfData.present,
               status |-> getStatus(s.spfScore),
               score |-> s.spfScore,
               issues |-> spfData.issues,
               fix |-> getFix("spf", spfData)],
      dkim |-> [present |-> dkimData.present,
                status |-> getStatus(s.dkimScore),
                score |-> s.dkimScore,
                selectors |-> dkimData.selectors,
                issues |-> dkimData.issues,
                fix |-> getFix("dkim", dkimData)],
      dmarc |-> [present |-> dmarcData.present,
                 status |-> getStatus(s.dmarcScore),
                 score |-> s.dmarcScore,
                 policy |-> IF dmarcData.policy = Null THEN PolicyNone
                            ELSE dmarcData.policy,
                 issues |-> dmarcData.issues,
                 fix |-> getFix("dmarc", dmarcData)],
      overallScore |-> overallScore,
      overallGrade |-> calculateOverallGrade(overallScore),
      domain |-> domain,
      timestamp |-> now]

ErrorBody(domain, now) ==
  [error |-> FailedError, domain |-> domain, timestamp |-> now]

\* ------------------------------------------------------- the environment

\* searchParams.get('domain'): Null when the parameter is absent
QueryParams ==
  { Null, <<>>, <<" ">>, <<"a">>, <<"-","a",".","c","o">>, <<"a","_","b",".","c","o">>, <<"a",".","c">>, <<"a",".","b",".","c","o",".","u","k">>,
    <<"f","t","p",":","/","/","a",".","c","o">>, <<"a",".","c","o">>,
    <<"a",".","b",".","e","x","a","m","p","l","e",".","c","o","m">>,
    <<"w","w","w",".","e","x","a","m","p","l","e","1",".","c","o","m">>,
    <<" ","H","T","T","P","S",":","/","/","A",".","c","o","/","x">> }

\* the clock readings new Date() may give
Timestamps == {"t1", "t2"}

\* what the resolver may answer for the apex name
ApexAnswers ==
  { Rejected,
    Resolved(<< >>),
    Resolved(<< <<<<"v","=","s","p","f","1"," ","i","n","c","l","u","d","e",":","_","s","p","f",".","g","o","o","g","l","e",".","c","o","m"," ","~","a","l","l">>>> >>),
    Resolved(<< <<<<"v","=","s","p","f","1"," ">>, <<"-","a","l","l">>>> >>),
    Resolved(<< <<<<"s","i","t","e","-","v","e","r","i","f","i","c","a","t","i","o","n","=","x">>>>, <<<<"v","=","s","p","f","1"," ","+","a","l","l">>>> >>),
    Resolved(<< <<<<"v","=","s","p","f","1"," ","-","a","l","l">>>>, <<<<"v","=","s","p","f","1"," ","a"," ","~","a","l","l">>>> >>) }

\* what the resolver may answer for _dmarc.<domain>
DmarcAnswers ==
  { Rejected,
    Resolved(<< >>),
    Resolved(<< <<<<"v","=","D","M","A","R","C","1",";"," ","p","=","r","e","j","e","c","t",";"," ","r","u","a","=","m","a","i","l","t","o",":","d","@","e","x","a","m","p","l","e",".","c","o","m">>>> >>),
    Resolved(<< <<<<"v","=","D","M","A","R","C","1",";"," ","p","=","q","u","a","r","a","n","t","i","n","e">>>> >>),
    Resolved(<< <<<<"v","=","D","M","A","R","C","1",";"," ">>, <<"p","=","n","o","n","e",";"," ","r","u","a","=","m","a","i","l","t","o",":","d","@","a",".","c","o">>>> >>),
    Resolved(<< <<<<"v","=","D","M","A","R","C","1">>>>, <<<<"v","=","D","M","A","R","C","1",";"," ","p","=","r","e","j","e","c","t">>>> >>) }

\* the positions in DKIM_SELECTORS of the selectors the zone publishes a key
\* under: google, s1, selector1, postmark, k1, mail
KeySelectors == {2, 3, 5, 8, 10, 12}

\* what the resolver may answer for <selector>._domainkey.<domain>, for the
\* selector at position k: it rejects, or it gives the records the zone holds
\* there, which are a key record behind another record for a published
\* selector and a record of another kind for the others
DkimAnswers(k) ==
  { Rejected,
    IF k \in KeySelectors
    THEN Resolved(<< <<<<"v","=","s","p","f","1"," ","-","a","l","l">>>>, <<<<"v","=","D","K","I","M","1",";"," ","k","=","r","s","a",";"," ">>, <<"p","=","M","I","G","f","M","A","0">>>> >>)
    ELSE Resolved(<< <<<<"v","=","s","p","f","1"," ","-","a","l","l">>>> >>) }

\* at most this many selector names resolve at all; the others are rejected
MaxDkimAnswers == 2

\* --------------------------------------------------------------- state

VARIABLES
  pc,              \* where the handler is: idle, awaitAll, dkim, done
  param,           \* searchParams.get('domain')
  cleanDomain,     \* domain.toLowerCase().trim()
  pending,         \* host names whose dns.resolveTxt has not settled
  settled,         \* the settled lookups of the pending Promise.all, in
                   \* order of settling
  spfData,         \* parseSPF(spfRecords)
  dmarcData,       \* parseDMARC(dmarcRecords)
  selectorIndex,   \* position of the selector loop in DKIM_SELECTORS
  foundSelectors,  \* checkDKIM's foundSelectors
  response,        \* what the handler returned
  issued,          \* history: every host name given to dns.resolveTxt, in order
  dns,             \* history: what the resolver answered, by host name
  facts,           \* the arguments of a call of calculateScore on its own
  scores,          \* what that call returned
  overall,         \* the overallScore computed from scores, or given to
                   \* calculateOverallGrade on its own
  grade,           \* calculateOverallGrade(overall)
  parseIn,         \* the arguments of a call of parseSPF or parseDMARC on its
                   \* own: which of the two, and the records
  parsed,          \* what that call returned
  fixIn,           \* the arguments of a call of getFix: type and data
  fix,             \* what that call returned
  inputDomain,     \* the page's state `domain`: the text of the input
  domainValid,     \* "true", "false", or "null" while nothing is typed
  loading,
  loadingStep,
  result,
  error,
  comparisonMode,
  comparisonResults,
  searchHistory,
  storage,         \* localStorage under 'mailshield-history', Null when unset
  timers,          \* the setTimeout callbacks not run yet, each with the
                   \* time left when the last one ran
  inflight,        \* what the checkEmailAuth call awaiting fetch closed over
  checks           \* the number of checks started

handlerVars == <<pc, param, cleanDomain, pending, settled, spfData, dmarcData,
                 selectorIndex, foundSelectors, response, issued, dns>>
scoreVars == <<facts, scores, overall, grade>>
parseVars == <<parseIn, parsed, fixIn, fix>>
pageVars == <<inputDomain, domainValid, loading, loadingStep, result, error,
              comparisonMode, comparisonResults, searchHistory, storage, timers,
              inflight, checks>>
vars == <<handlerVars, scoreVars, parseVars, pageVars>>

Undefined == [undefined |-> TRUE]
NoAnswers == [n \in {} |-> Rejected]

NoResult == [null |-> TRUE]

\* the component before it is mounted: the useState initial values
PageUnmounted ==
  /\ inputDomain = <<>>
  /\ domainValid = "null"
  /\ loading = FALSE
  /\ loadingStep = ""
  /\ result = NoResult
  /\ error = ""
  /\ comparisonMode = FALSE
  /\ comparisonResults = <<>>
  /\ searchHistory = <<>>
  /\ storage = Null
  /\ timers = {}
  /\ inflight = Undefined
  /\ checks = 0

Init ==
  /\ pc = "idle"
  /\ param = Null
  /\ cleanDomain = <<>>
  /\ pending = {}
  /\ settled = <<>>
  /\ spfData = Undefined
  /\ dmarcData = Undefined
  /\ selectorIndex = 0
  /\ foundSelectors = <<>>
  /\ response = Undefined
  /\ issued = <<>>
  /\ dns = NoAnswers
  /\ facts = Undefined
  /\ scores = Undefined
  /\ overall = -1
  /\ grade = "null"
  /\ parseIn = Undefined
  /\ parsed = Undefined
  /\ fixIn = Undefined
  /\ fix = "null"
  /\ PageUnmounted

Answered(name, answer) ==
  [n \in DOMAIN dns \cup {name} |-> IF n = name THEN answer ELSE dns[n]]

\* the two names of the Promise.all, in the order of its array
FirstLookups(domain) == <<domain, DmarcHost(domain)>>

\* GET up to its first await: lines 303-327
Request(p) ==
  /\ pc = "idle"
  /\ param' = p
  /\ UNCHANGED <<settled, spfData, dmarcData, selectorIndex, foundSelectors,
                 dns, scoreVars, parseVars, pageVars>>
  /\ IF p = Null \/ p = <<>>
     THEN /\ response' = [status |-> 400, body |-> [error |-> RequiredError]]
          /\ pc' = "done"
          /\ UNCHANGED <<cleanDomain, pending, issued>>
     ELSE LET clean == trim(toLowerCase(p))
          IN /\ cleanDomain' = clean
             /\ IF ~validateDomain(clean)
                THEN /\ response' =
                          [status |-> 400, body |-> [error |-> InvalidError]]
                     /\ pc' = "done"
                     /\ UNCHANGED <<pending, issued>>
                ELSE /\ pending' = {FirstLookups(clean)[k] : k \in 1..2}
                     /\ issued' = FirstLookups(clean)
                     /\ pc' = "awaitAll"
                     /\ UNCHANGED response

\* the catch block of GET: lines 375-386
Catch(now) ==
  /\ response' = [status |-> 500, body |-> ErrorBody(cleanDomain, now)]
  /\ pc' = "done"

\* every remaining selector looked up at once
StartSelector_AllAtOnce(k) ==
  /\ selectorIndex' = k
  /\ pending' = {DkimHost(DKIM_SELECTORS[j], cleanDomain) :
                   j \in k..Len(DKIM_SELECTORS)}
  /\ issued' = issued \o [j \in 1..(Len(DKIM_SELECTORS) - k + 1) |->
                            DkimHost(DKIM_SELECTORS[j + k - 1], cleanDomain)]

\* the selector's name looked up twice
StartSelector_Twice(k) ==
  /\ selectorIndex' = k
  /\ pending' = {DkimHost(DKIM_SELECTORS[k], cleanDomain)}
  /\ issued' = issued \o << DkimHost(DKIM_SELECTORS[k], cleanDomain),
                            DkimHost(DKIM_SELECTORS[k], cleanDomain) >>

\* the loop starts over with the first selector
StartSelector_NeverAdvances(k) ==
  /\ selectorIndex' = 1
  /\ pending' = {DkimHost(DKIM_SELECTORS[1], cleanDomain)}
  /\ issued' = issued

\* an iteration of checkDKIM's loop, up to its await
StartSelector(k) ==
  /\ selectorIndex' = k
  /\ pending' = {DkimHost(DKIM_SELECTORS[k], cleanDomain)}
  /\ issued' = Append(issued, DkimHost(DKIM_SELECTORS[k], cleanDomain))

\* one lookup of the Promise.all settles; with the last one GET goes on to
\* parse both record sets and enters checkDKIM: lines 324-332, 163-168
SettleLookup(name, answer) ==
  /\ pc = "awaitAll"
  /\ name \in pending
  /\ answer \in (IF name = cleanDomain THEN ApexAnswers ELSE DmarcAnswers)
  /\ dns' = Answered(name, answer)
  /\ UNCHANGED <<param, cleanDomain, foundSelectors, scoreVars, parseVars,
                 pageVars>>
  /\ LET r == lookupTXT(answer)
         done == Append(settled, [name |-> name, value |-> r.value])
     IN IF r.threw
        THEN /\ \E now \in Timestamps : Catch(now)
             /\ pending' = pending \ {name}
             /\ UNCHANGED <<settled, spfData, dmarcData, selectorIndex, issued>>
        ELSE IF pending \ {name} # {}
        THEN /\ settled' = done
             /\ pending' = pending \ {name}
             /\ UNCHANGED <<pc, spfData, dmarcData, selectorIndex, response,
                            issued>>
        ELSE LET all == PromiseAll(FirstLookups(cleanDomain), done)
             IN /\ settled' = <<>>
                /\ spfData' = parseSPF(all[1])
                /\ dmarcData' = parseDMARC(all[2])
                /\ StartSelector(1)
                /\ pc' = "dkim"
                /\ UNCHANGED response

\* the selector host names the resolver has answered with records
DkimAnswered ==
  {n \in DOMAIN dns : dns[n].ok} \ {cleanDomain, DmarcHost(cleanDomain)}

\* the lookup of the current selector settles; the loop goes on to the next
\* selector, or checkDKIM returns and GET assembles the result:
\* lines 166-187, 335-373
SettleSelector(answer) ==
  /\ pc = "dkim"
  /\ answer \in DkimAnswers(selectorIndex)
  /\ answer.ok => Cardinality(DkimAnswered) < MaxDkimAnswers
  /\ dns' = Answered(DkimHost(DKIM_SELECTORS[selectorIndex], cleanDomain), answer)
  /\ UNCHANGED <<param, cleanDomain, settled, spfData, dmarcData, scoreVars,
                 parseVars, pageVars>>
  /\ LET r == lookupTXT(answer)
         found == IF SelectorFound(r.value)
                  THEN Append(foundSelectors, DKIM_SELECTORS[selectorIndex])
                  ELSE foundSelectors
     IN IF r.threw
        THEN /\ \E now \in Timestamps : Catch(now)
             /\ pending' = {}
             /\ UNCHANGED <<selectorIndex, foundSelectors, issued>>
        ELSE /\ foundSelectors' = found
             /\ IF selectorIndex < Len(DKIM_SELECTORS)
                THEN /\ StartSelector(selectorIndex + 1)
                     /\ UNCHANGED <<pc, response>>
                ELSE /\ \E now \in Timestamps :
                          response' =
                            [status |-> 200,
                             body |-> BuildResult(cleanDomain, spfData,
                                                  DkimResult(found), dmarcData,
                                                  now)]
                     /\ pc' = "done"
                     /\ pending' = {}
                     /\ UNCHANGED <<selectorIndex, issued>>

Next ==
  \/ \E p \in QueryParams : Request(p)
  \/ \E name \in pending, answer \in ApexAnswers \cup DmarcAnswers :
       SettleLookup(name, answer)
  \/ \E answer \in DkimAnswers(selectorIndex) : SettleSelector(answer)

Spec == Init /\ [][Next]_vars

\* every lookup the handler awaits is settled at some time: the resolver
\* resolves or rejects each query
Settle ==
  \/ \E name \in pending, answer \in ApexAnswers \cup DmarcAnswers :
       SettleLookup(name, answer)
  \/ \E answer \in DkimAnswers(selectorIndex) : SettleSelector(answer)

SpecLive == Spec /\ WF_vars(Settle)

\* ------------------------------------------- the scoring functions alone

\* the largest number of issues a section is scored with
MaxIssues == 7

IssueLists == {[i \in 1..n |-> "issue"] : n \in 0..MaxIssues}
SelectorLists == {SubSeq(DKIM_SELECTORS, 1, n) : n \in 0..3}

SpfFacts ==
  [present : BOOLEAN,
   qualifier : {"null", "fail", "softfail", "neutral", "pass"},
   issues : IssueLists]
DkimFacts ==
  [present : BOOLEAN, selectors : SelectorLists, issues : IssueLists]
DmarcFacts ==
  [present : BOOLEAN,
   policy : {Null, PolicyNone, PolicyQuarantine, PolicyReject},
   rua : {Null, <<"m","a","i","l","t","o",":","d","@","a",".","c","o">>},
   issues : IssueLists]

\* the handler has not been called; the arguments of one call of calculateScore,
\* or of one call of calculateOverallGrade, are drawn
InitScore ==
  /\ pc = "idle"
  /\ param = Null
  /\ cleanDomain = <<>>
  /\ pending = {}
  /\ settled = <<>>
  /\ spfData = Undefined
  /\ dmarcData = Undefined
  /\ selectorIndex = 0
  /\ foundSelectors = <<>>
  /\ response = Undefined
  /\ issued = <<>>
  /\ dns = NoAnswers
  /\ scores = Undefined
  /\ grade = "null"
  /\ parseIn = Undefined
  /\ parsed = Undefined
  /\ fixIn = Undefined
  /\ fix = "null"
  /\ PageUnmounted
  /\ \/ /\ facts \in [spf : SpfFacts, dkim : DkimFacts, dmarc : DmarcFacts]
        /\ overall = -1
     \/ /\ facts = Undefined
        /\ overall \in MinScore..MaxScore

\* calculateScore on the facts drawn, then lines 336 and 363 of GET
Score ==
  /\ facts # Undefined
  /\ scores = Undefined
  /\ scores' = calculateScore(facts.spf, facts.dkim, facts.dmarc)
  /\ overall' = OverallScore(scores')
  /\ grade' = calculateOverallGrade(overall')
  /\ UNCHANGED <<handlerVars, facts, parseVars, pageVars>>

\* calculateOverallGrade on the score drawn
Grade ==
  /\ facts = Undefined
  /\ grade = "null"
  /\ grade' = calculateOverallGrade(overall)
  /\ UNCHANGED <<handlerVars, facts, scores, overall, parseVars, pageVars>>

NextScore == Score \/ Grade

SpecScore == InitScore /\ [][NextScore]_vars

\* --------------------------------------------- the parsers and getFix alone

\* the largest number of TXT records a parser is called with
MaxRecords == 2

\* what the apex name may hold, one string per record
SpfRecordPool ==
  { <<"v","=","s","p","f","1"," ","i","n","c","l","u","d","e",":","_","s","p","f",".","g","o","o","g","l","e",".","c","o","m"," ","~","a","l","l">>,
    <<"v","=","s","p","f","1"," ","-","a","l","l">>,
    <<"v","=","s","p","f","1"," ","a"," ","~","a","l","l">>,
    <<"v","=","s","p","f","1"," ","?","a","l","l">>,
    <<"v","=","s","p","f","1"," ","+","a","l","l">>,
    <<"v","=","s","p","f","1"," ","a"," ","m","x">>,
    <<"v","=","s","p","f","1"," ","i","n","c","l","u","d","e",":","x","-","a","l","l",".","c","o"," ","~","a","l","l">>,
    <<"v","=","s","p","f","1"," ","i","n","c","l","u","d","e",":","a"," ","i","n","c","l","u","d","e",":","b"," ","i","n","c","l","u","d","e",":","a"," ","i","n","c","l","u","d","e",":","c"," ","i","n","c","l","u","d","e",":","d"," ","i","n","c","l","u","d","e",":","e"," ","i","n","c","l","u","d","e",":","f"," ","i","n","c","l","u","d","e",":","g"," ","i","n","c","l","u","d","e",":","h"," ","i","n","c","l","u","d","e",":","i"," ","~","a","l","l">>,
    <<"v","=","s","p","f","1"," ","i","n","c","l","u","d","e",":","a"," ","i","n","c","l","u","d","e",":","b"," ","i","n","c","l","u","d","e",":","a"," ","i","n","c","l","u","d","e",":","c"," ","i","n","c","l","u","d","e",":","d"," ","i","n","c","l","u","d","e",":","e"," ","i","n","c","l","u","d","e",":","f"," ","i","n","c","l","u","d","e",":","g"," ","i","n","c","l","u","d","e",":","h"," ","i","n","c","l","u","d","e",":","i"," ","i","n","c","l","u","d","e",":","j"," ","-","a","l","l">>,
    <<"v","=","s","p","f","1"," ","i","n","c","l","u","d","e",":","i","n","c","l","u","d","e",":","x"," ","~","a","l","l">>,
    <<"v","=","s","p","f","1"," ","i","n","c","l","u","d","e",":"," ","~","a","l","l">>,
    <<" ","v","=","s","p","f","1"," ","-","a","l","l">>,
    <<"g","o","o","g","l","e","-","s","i","t","e","-","v","e","r","i","f","i","c","a","t","i","o","n","=","x">> }

\* what _dmarc.<domain> may hold, one string per record
DmarcRecordPool ==
  { <<"v","=","D","M","A","R","C","1",";"," ","p","=","r","e","j","e","c","t",";"," ","r","u","a","=","m","a","i","l","t","o",":","d","@","e","x","a","m","p","l","e",".","c","o","m">>,
    <<"v","=","D","M","A","R","C","1",";"," ","r","u","a","=","m","a","i","l","t","o",":","d","@","a",".","c","o",";"," ","p","=","q","u","a","r","a","n","t","i","n","e">>,
    <<"v","=","D","M","A","R","C","1",";"," ","p","=","q","u","a","r","a","n","t","i","n","e">>,
    <<"v","=","D","M","A","R","C","1",";"," ","p","=","n","o","n","e">>,
    <<"v","=","D","M","A","R","C","1">>,
    <<"v","=","D","M","A","R","C","1",";"," ","p","=","f","o","o",";"," ","r","u","a","=","m","a","i","l","t","o",":","d","@","a",".","c","o">>,
    <<"v","=","D","M","A","R","C","1",";"," ","s","p","=","n","o","n","e",";"," ","p","=","r","e","j","e","c","t",";"," ","r","u","a","=","m","a","i","l","t","o",":","d","@","a",".","c","o">>,
    <<"v","=","s","p","f","1"," ","-","a","l","l">> }

RecordSets(pool) ==
  UNION {[1..n -> pool] : n \in 0..MaxRecords}

ParseInputs ==
  [kind : {"spf"}, records : RecordSets(SpfRecordPool)]
  \cup [kind : {"dmarc"}, records : RecordSets(DmarcRecordPool)]

\* the facts getFix may be handed, those no parser produces included
FixInputs ==
  [type : {"spf"},
   data : [present : BOOLEAN,
           qualifier : {"null", "fail", "softfail", "neutral", "pass"},
           issues : {<<>>, <<NoSpfIssue>>, <<MultipleSpfIssue>>,
                     <<MissingAllIssue>>, <<PlusAllIssue>>,
                     <<TooManyIncludesIssue, PlusAllIssue>>}]]
  \cup [type : {"dkim"},
        data : [present : BOOLEAN,
                selectors : {SubSeq(DKIM_SELECTORS, 2, n) : n \in 1..3},
                issues : {<<>>, <<NoDkimIssue>>}]]
  \cup [type : {"dmarc"},
        data : [present : BOOLEAN,
                policy : {Null, PolicyNone, PolicyQuarantine, PolicyReject},
                rua : {Null, <<"m","a","i","l","t","o",":","d","@","a",".","c","o">>},
                issues : {<<>>, <<NoDmarcIssue>>, <<PolicyNoneIssue>>,
                          <<NoRuaIssue>>, <<PolicyNoneIssue, NoRuaIssue>>}]]

\* the handler has not been called; the records one parser is called with, or
\* the arguments of one call of getFix, are drawn
InitParse ==
  /\ pc = "idle"
  /\ param = Null
  /\ cleanDomain = <<>>
  /\ pending = {}
  /\ settled = <<>>
  /\ spfData = Undefined
  /\ dmarcData = Undefined
  /\ selectorIndex = 0
  /\ foundSelectors = <<>>
  /\ response = Undefined
  /\ issued = <<>>
  /\ dns = NoAnswers
  /\ facts = Undefined
  /\ scores = Undefined
  /\ overall = -1
  /\ grade = "null"
  /\ parsed = Undefined
  /\ fix = "null"
  /\ PageUnmounted
  /\ \/ /\ parseIn \in ParseInputs
        /\ fixIn = Undefined
     \/ /\ parseIn = Undefined
        /\ fixIn \in FixInputs

\* parseSPF or parseDMARC on the records drawn (lines 318 and 319 of GET); its
\* result is what getFix is then called with (lines 341 and 357)
Parse ==
  /\ parseIn # Undefined
  /\ parsed = Undefined
  /\ parsed' = IF parseIn.kind = "spf" THEN parseSPF(parseIn.records)
               ELSE parseDMARC(parseIn.records)
  /\ fixIn' = [type |-> parseIn.kind, data |-> parsed']
  /\ UNCHANGED <<handlerVars, scoreVars, parseIn, fix, pageVars>>

\* getFix on its arguments
Fix ==
  /\ fixIn # Undefined
  /\ fix = "null"
  /\ fix' = getFix(fixIn.type, fixIn.data)
  /\ UNCHANGED <<handlerVars, scoreVars, parseIn, parsed, fixIn, pageVars>>

NextParse == Parse \/ Fix

SpecParse == InitParse /\ [][NextParse]_vars

\* ------------------------------------------------------ the page (page.tsx)

\* the validateDomain of the page: lines 76-85. Its regex literal is the one
\* of the route; the length is tested on the stripped text, and the text is
\* not lower-cased
validateDomainPage(text) ==
  IF text = <<>> THEN FALSE
  ELSE LET clean == BeforeSlash(StripProtocol(text))
       IN domainRegexTest(clean) /\ Len(clean) <= MaxDomainLength

\* the labels of the loading indicator, in the order checkEmailAuth sets and
\* schedules them
LoadingSteps ==
  << "Validating domain...", "Looking up SPF records...",
     "Checking DKIM selectors...", "Analyzing DMARC policy...",
     "Calculating security score..." >>

\* the delays of the four setTimeout calls, in units of 500 ms
TimerUnit == 500
StepDelays == <<500 \div TimerUnit, 1500 \div TimerUnit, 2500 \div TimerUnit,
                3500 \div TimerUnit>>

\* the history keeps this many entries
MaxHistory == 10

\* the first n elements of a sequence: Array.prototype.slice(0, n)
slice(s, n) == SubSeq(s, 1, Min(n, Len(s)))

\* the list without every entry equal to the domain, the domain alone
\* prepended
saveToHistory_NoFilter(searchDomain, history) ==
  slice(<<searchDomain>> \o history, MaxHistory)

\* newHistory of saveToHistory: line 99
saveToHistory(searchDomain, history) ==
  LET Other(d) == d # searchDomain
  IN slice(<<searchDomain>> \o SelectSeq(history, Other), MaxHistory)

\* JSON.stringify of an array of strings free of quotes and backslashes
RECURSIVE JsonItems(_)
JsonItems(list) ==
  IF list = <<>> THEN <<>>
  ELSE <<"\"">> \o Head(list) \o <<"\"">>
       \o (IF Len(list) > 1 THEN <<",">> ELSE <<>>)
       \o JsonItems(Tail(list))

JsonStringify(list) == <<"[">> \o JsonItems(list) \o <<"]">>

\* JSON.parse of such a text: the strings between the quotes
RECURSIVE JsonStrings(_)
JsonStrings(text) ==
  LET quotes == {i \in 1..Len(text) : text[i] = "\""}
  IN IF Cardinality(quotes) < 2 THEN <<>>
     ELSE LET a == CHOOSE i \in quotes : \A j \in quotes : i <= j
              b == CHOOSE i \in quotes \ {a} : \A j \in quotes \ {a} : i <= j
          IN <<SubSeq(text, a + 1, b - 1)>>
             \o JsonStrings(SubSeq(text, b + 1, Len(text)))

JsonParse(text) == JsonStrings(text)

\* findIndex(r => r.domain === cleanDomain): 0 stands for -1
findIndex(results, clean) ==
  LET at == {i \in 1..Len(results) : results[i].domain = clean}
  IN IF at = {} THEN 0 ELSE CHOOSE i \in at : \A j \in at : i <= j

\* what /api/check answers the page for a domain: the route's validation
\* decides between the report and the 400, and of the report only the domain,
\* the route's cleanDomain, is read by the logic of the page.
ApiCheck(clean) ==
  LET serverDomain == trim(toLowerCase(clean))
  IN IF clean = <<>> THEN [ok |-> FALSE, error |-> RequiredError]
     ELSE IF ~validateDomain(serverDomain)
     THEN [ok |-> FALSE, error |-> InvalidError]
     ELSE [ok |-> TRUE, data |-> [domain |-> serverDomain]]

\* what the user may type into the input
TypedDomains ==
  { <<"A",".","c","o">>, <<" ","a",".","c","o">>, <<"a","_","b",".","c","o">> }

\* what localStorage may hold under 'mailshield-history' when the page is
\* opened: nothing, or what an earlier visit saved
StoredHistories ==
  { Null,
    JsonStringify(<<<<"h","0",".","c","o">>, <<"h","1",".","c","o">>, <<"h","2",".","c","o">>, <<"h","3",".","c","o">>, <<"h","4",".","c","o">>, <<"h","5",".","c","o">>, <<"h","6",".","c","o">>, <<"h","7",".","c","o">>, <<"a",".","c","o">>, <<"h","9",".","c","o">>>>) }

\* this many checks are started
MaxChecks == 2

\* the entries of the history dropdown the user clicks: the most recent one
PickedEntries == {1}

\* the page once mounted: the effect of lines 50-61 has read the history
InitPage ==
  /\ pc = "idle"
  /\ param = Null
  /\ cleanDomain = <<>>
  /\ pending = {}
  /\ settled = <<>>
  /\ spfData = Undefined
  /\ dmarcData = Undefined
  /\ selectorIndex = 0
  /\ foundSelectors = <<>>
  /\ response = Undefined
  /\ issued = <<>>
  /\ dns = NoAnswers
  /\ facts = Undefined
  /\ scores = Undefined
  /\ overall = -1
  /\ grade = "null"
  /\ parseIn = Undefined
  /\ parsed = Undefined
  /\ fixIn = Undefined
  /\ fix = "null"
  /\ inputDomain = <<>>
  /\ domainValid = "null"
  /\ loading = FALSE
  /\ loadingStep = ""
  /\ result = NoResult
  /\ error = ""
  /\ comparisonMode = FALSE
  /\ comparisonResults = <<>>
  /\ storage \in StoredHistories
  /\ searchHistory = IF storage = Null THEN <<>> ELSE JsonParse(storage)
  /\ timers = {}
  /\ inflight = Undefined
  /\ checks = 0

notPageVars == <<handlerVars, scoreVars, parseVars>>

\* handleDomainChange: lines 88-95. The input is disabled while loading
handleDomainChange(value) ==
  /\ ~loading
  /\ inputDomain' = value
  /\ domainValid' = IF trim(value) # <<>>
                    THEN (IF validateDomainPage(trim(value))
                          THEN "true" ELSE "false")
                    ELSE "null"
  /\ UNCHANGED <<loading, loadingStep, result, error, comparisonMode,
                 comparisonResults, searchHistory, storage, timers, inflight,
                 checks, notPageVars>>

\* a click on an entry of the history dropdown: lines 448-452
PickHistory(i) ==
  /\ ~loading
  /\ i \in 1..Len(searchHistory)
  /\ inputDomain' = searchHistory[i]
  /\ domainValid' = IF validateDomainPage(searchHistory[i])
                    THEN "true" ELSE "false"
  /\ UNCHANGED <<loading, loadingStep, result, error, comparisonMode,
                 comparisonResults, searchHistory, storage, timers, inflight,
                 checks, notPageVars>>

\* the comparison mode button: line 304
ToggleComparison ==
  /\ comparisonMode' = ~comparisonMode
  /\ UNCHANGED <<inputDomain, domainValid, loading, loadingStep, result, error,
                 comparisonResults, searchHistory, storage, timers, inflight,
                 checks, notPageVars>>

\* clearComparison: lines 155-159; its button shows in comparison mode when
\* there are results (line 339)
clearComparison ==
  /\ comparisonMode /\ Len(comparisonResults) > 0
  /\ comparisonResults' = <<>>
  /\ comparisonMode' = FALSE
  /\ result' = NoResult
  /\ UNCHANGED <<inputDomain, domainValid, loading, loadingStep, error,
                 searchHistory, storage, timers, inflight, checks, notPageVars>>

\* the four setTimeout calls of a check: lines 121-124. Two timers with the
\* same label and the same time left act as one.
ScheduleSteps ==
  timers \cup {[step |-> k + 1, left |-> StepDelays[k]] :
                 k \in 1..Len(StepDelays)}

\* checkEmailAuth up to its await of fetch: lines 104-126. The button and the
\* input are disabled while loading (lines 422, 470). The call keeps the
\* comparisonMode and comparisonResults of the render it was made in.
StartCheck ==
  /\ ~loading
  /\ checks < MaxChecks
  /\ inputDomain # <<>> /\ domainValid = "true"
  /\ loading' = TRUE
  /\ error' = ""
  /\ result' = IF ~comparisonMode THEN NoResult ELSE result
  /\ loadingStep' = LoadingSteps[1]
  /\ searchHistory' = saveToHistory(trim(inputDomain), searchHistory)
  /\ storage' = JsonStringify(searchHistory')
  /\ checks' = checks + 1
  /\ timers' = ScheduleSteps
  /\ inflight' = [cleanDomain |-> trim(inputDomain),
                  comparisonMode |-> comparisonMode,
                  comparisonResults |-> comparisonResults]
  /\ UNCHANGED <<inputDomain, domainValid, comparisonMode, comparisonResults,
                 notPageVars>>

\* the rest of checkEmailAuth once fetch has settled: lines 126-151. The
\* request may fail on its way (fetch rejects); otherwise the route answers.
FetchSettles(reached) ==
  /\ loading
  /\ inflight # Undefined
  /\ LET answer == ApiCheck(inflight.cleanDomain)
         existingIndex ==
           findIndex(inflight.comparisonResults, inflight.cleanDomain)
     IN IF ~reached
        THEN /\ error' = "Failed to fetch"
             /\ UNCHANGED <<result, comparisonResults>>
        ELSE IF ~answer.ok
        THEN /\ error' = answer.error
             /\ UNCHANGED <<result, comparisonResults>>
        ELSE IF inflight.comparisonMode
        THEN /\ comparisonResults' =
                  IF existingIndex > 0
                  THEN [inflight.comparisonResults
                          EXCEPT ![existingIndex] = answer.data]
                  ELSE Append(inflight.comparisonResults, answer.data)
             /\ UNCHANGED <<result, error>>
        ELSE /\ result' = answer.data
             /\ UNCHANGED <<comparisonResults, error>>
  /\ loading' = FALSE
  /\ loadingStep' = ""
  /\ inflight' = Undefined
  /\ UNCHANGED <<inputDomain, domainValid, comparisonMode, searchHistory,
                 storage, timers, checks, notPageVars>>

\* time passes until the next timer is due, and its callback calls
\* setLoadingStep; of two due at the same time the one with the longer delay
\* was scheduled first
TimerFires ==
  \E t \in timers :
    /\ \A u \in timers :
         u.left > t.left \/ (u.left = t.left /\ u.step <= t.step)
    /\ loadingStep' = LoadingSteps[t.step]
    /\ timers' = {[u EXCEPT !.left = @ - t.left] : u \in timers \ {t}}
    /\ UNCHANGED <<inputDomain, domainValid, loading, result, error,
                   comparisonMode, comparisonResults, searchHistory, storage,
                   inflight, checks, notPageVars>>

NextPage ==
  \/ \E value \in TypedDomains : handleDomainChange(value)
  \/ \E i \in PickedEntries : PickHistory(i)
  \/ ToggleComparison
  \/ clearComparison
  \/ StartCheck
  \/ \E reached \in BOOLEAN : FetchSettles(reached)
  \/ TimerFires

SpecPage == InitPage /\ [][NextPage]_vars

\* ============================================================== claims

Sections == {"spf", "dkim", "dmarc"}
Grades == {"A", "B", "C", "D", "F"}
Statuses == {"pass", "warn", "fail"}

Answered200 == pc = "done" /\ response.status = 200
AllIssued == Len(issued) = 2 + Len(DKIM_SELECTORS)
EveryLookupFailed ==
  /\ Cardinality(DOMAIN dns) = 2 + Len(DKIM_SELECTORS)
  /\ \A n \in DOMAIN dns : ~dns[n].ok

\* the records of an answer the resolver gave, one string per record
RecordsOf(answer) == [i \in 1..Len(answer.rrs) |-> join(answer.rrs[i])]

\* the same, a failed lookup read as one that returned no records
RecordsOrNone(answer) == IF answer.ok THEN RecordsOf(answer) ELSE <<>>

\* C1: for every domain that passes validation the handler answers 200 with a
\* report holding exactly the sections spf, dkim and dmarc, each with a score,
\* a status and a fix, and an overallGrade among A, B, C, D, F, whatever the
\* 14 lookups did, all of them failing included.
C1_ReportComplete ==
  (pc = "done" /\ validateDomain(cleanDomain)) =>
    /\ response.status = 200
    /\ DOMAIN response.body =
         Sections \cup {"overallScore", "overallGrade", "domain", "timestamp"}
    /\ \A s \in Sections :
         /\ {"score", "status", "fix"} \subseteq DOMAIN response.body[s]
         /\ response.body[s].score \in Int
         /\ response.body[s].status \in Statuses
         /\ response.body[s].fix # ""
    /\ response.body.overallGrade \in Grades

\* every one of the 14 lookups failed and the answer is a report
C1_Witness ==
  /\ Answered200
  /\ EveryLookupFailed
  /\ response.body.overallGrade = "F"

SpfSectionOf(records) ==
  LET d == parseSPF(records)
      score == Clamp(SpfRawScore(d))
  IN [present |-> d.present, status |-> getStatus(score), score |-> score,
      issues |-> d.issues, fix |-> getFix("spf", d)]

DmarcSectionOf(records) ==
  LET d == parseDMARC(records)
      score == Clamp(DmarcRawScore(d))
  IN [present |-> d.present, status |-> getStatus(score), score |-> score,
      policy |-> IF d.policy = Null THEN PolicyNone ELSE d.policy,
      issues |-> d.issues, fix |-> getFix("dmarc", d)]

\* the selectors, in list order, whose answer holds a key record
SelectorsIn(domain, answers) ==
  LET Keyed(s) == SelectorFound(RecordsOrNone(answers[DkimHost(s, domain)]))
  IN SelectSeq(DKIM_SELECTORS, Keyed)

DkimSectionOf(selectors) ==
  LET d == DkimResult(selectors)
      score == Clamp(DkimRawScore(d))
  IN [present |-> d.present, status |-> getStatus(score), score |-> score,
      selectors |-> d.selectors, issues |-> d.issues, fix |-> getFix("dkim", d)]

\* C2: a failed lookup counts as an empty record set for its own name only.
\* The request is answered 200; each section is what the answer to its own
\* lookup gives, a failure read as no records, whatever the other lookups did;
\* the section of a failed apex or _dmarc lookup has present = FALSE, and a
\* selector whose lookup failed is not in dkim.selectors.
C2_FailureIsNoRecords ==
  (pc = "done" /\ validateDomain(cleanDomain)) =>
    /\ response.status = 200
    /\ response.body.spf = SpfSectionOf(RecordsOrNone(dns[cleanDomain]))
    /\ response.body.dmarc =
         DmarcSectionOf(RecordsOrNone(dns[DmarcHost(cleanDomain)]))
    /\ response.body.dkim = DkimSectionOf(SelectorsIn(cleanDomain, dns))
    /\ ~dns[cleanDomain].ok => ~response.body.spf.present
    /\ ~dns[DmarcHost(cleanDomain)].ok => ~response.body.dmarc.present
    /\ \A k \in 1..Len(DKIM_SELECTORS) :
         ~dns[DkimHost(DKIM_SELECTORS[k], cleanDomain)].ok =>
           \A j \in 1..Len(response.body.dkim.selectors) :
             response.body.dkim.selectors[j] # DKIM_SELECTORS[k]

\* the _dmarc lookup failed, the apex lookup and a selector lookup gave
\* records, another selector lookup failed
C2_Witness ==
  /\ Answered200
  /\ ~dns[DmarcHost(cleanDomain)].ok
  /\ ~response.body.dmarc.present
  /\ response.body.spf.present
  /\ response.body.dkim.selectors = <<DKIM_SELECTORS[2]>>
  /\ ~dns[DkimHost(DKIM_SELECTORS[1], cleanDomain)].ok

SelectorHosts(n) ==
  [k \in 1..n |-> DkimHost(DKIM_SELECTORS[k], cleanDomain)]

InvalidParams ==
  { <<" ">>, <<"a">>, <<"-","a",".","c","o">>, <<"a","_","b",".","c","o">>, <<"a",".","c">>, <<"f","t","p",":","/","/","a",".","c","o">> }

\* C4: a missing (absent or empty) domain parameter is answered 400 "Domain
\* parameter is required", one that fails validation 400 "Invalid domain
\* format", and in both cases no DNS lookup is ever issued.
C4_RejectedWithoutLookup ==
  pc # "idle" =>
    /\ (param = Null \/ param = <<>>) =>
         /\ pc = "done"
         /\ response = [status |-> 400,
                        body |-> [error |-> "Domain parameter is required"]]
         /\ issued = <<>> /\ pending = {} /\ dns = NoAnswers
    /\ ( /\ param # Null /\ param # <<>>
         /\ \/ ~validateDomain(trim(toLowerCase(param)))
            \/ param \in InvalidParams ) =>
         /\ pc = "done"
         /\ response = [status |-> 400,
                        body |-> [error |-> "Invalid domain format"]]
         /\ issued = <<>> /\ pending = {} /\ dns = NoAnswers

\* a request with a malformed domain has been answered
C4_Witness ==
  /\ pc = "done"
  /\ param = <<"-","a",".","c","o">>
  /\ response.status = 400
  /\ response.body.error = InvalidError
  /\ issued = <<>>

\* the host part of an input: scheme and path removed
HostPart(s) == BeforeSlash(StripProtocol(s))

\* C5: an input with a scheme or a path is accepted when its host part is a
\* valid domain, and the lookup names and Report.domain are built from the
\* host part, without the scheme and the path.
C5_LookupsUseHostPart ==
  /\ (pc # "idle" /\ param # Null /\ domainRegexTest(HostPart(cleanDomain))) =>
       (pc = "done" => response.status = 200)
  /\ issued # <<>> =>
       /\ issued[1] = HostPart(cleanDomain)
       /\ issued[2] = DmarcHost(HostPart(cleanDomain))
       /\ Answered200 => response.body.domain = HostPart(cleanDomain)

\* C6: when every lookup of the request fails, as for a domain that does not
\* exist, the answer is 500 with {error, domain, timestamp} and no sections.
C6_UnresolvableIs500 ==
  (pc = "done" /\ EveryLookupFailed) =>
    /\ response.status = 500
    /\ DOMAIN response.body = {"error", "domain", "timestamp"}

\* C7: every score calculateScore returns is an integer in [0,100], for every
\* combination of facts and any number of issues.
C7_ScoresClamped ==
  scores # Undefined =>
    /\ scores.spfScore \in MinScore..MaxScore
    /\ scores.dkimScore \in MinScore..MaxScore
    /\ scores.dmarcScore \in MinScore..MaxScore

\* both clamps act: an SPF sum below 0 and a DMARC sum above 100
C7_Witness ==
  /\ scores # Undefined
  /\ SpfRawScore(facts.spf) < MinScore /\ scores.spfScore = MinScore
  /\ DmarcRawScore(facts.dmarc) > MaxScore /\ scores.dmarcScore = MaxScore

\* the report computed from the domain and the resolver's answers alone
Analyze(domain, answers, now) ==
  BuildResult(domain,
              parseSPF(RecordsOrNone(answers[domain])),
              DkimResult(SelectorsIn(domain, answers)),
              parseDMARC(RecordsOrNone(answers[DmarcHost(domain)])),
              now)

\* C8: the report is a function of the domain and of the resolver's answer for
\* each lookup name: facts, scores, statuses, overallScore, overallGrade and
\* fixes do not depend on the order in which the lookups settle; only the
\* timestamp is free.
C8_Deterministic ==
  Answered200 =>
    response.body = Analyze(cleanDomain, dns, response.body.timestamp)

\* a report whose SPF and DMARC sections come from different record sets
C8_Witness ==
  /\ Answered200
  /\ response.body.spf.present /\ response.body.dmarc.present
  /\ response.body.spf.score # response.body.dmarc.score
  /\ response.body.dkim.selectors = <<DKIM_SELECTORS[3], DKIM_SELECTORS[12]>>

GradeOf(n) ==
  IF n >= 90 THEN "A" ELSE IF n >= 80 THEN "B" ELSE IF n >= 70 THEN "C"
  ELSE IF n >= 60 THEN "D" ELSE "F"

\* C9: overallScore is the mean of the three clamped section scores rounded
\* to the nearest integer, overallGrade is A from 90, B from 80, C from 70,
\* D from 60 and F below; 90 gives A, 89 gives B, and the section scores
\* 90, 100, 100 give 97 and A.
C9_OverallScoreAndGrade ==
  /\ scores # Undefined =>
       LET sum == scores.spfScore + scores.dkimScore + scores.dmarcScore
       IN /\ 3 * overall - sum \in {-1, 0, 1}
          /\ (sum = 290) => (overall = 97 /\ grade = "A")
  /\ grade # "null" =>
       /\ grade = GradeOf(overall)
       /\ overall = 90 => grade = "A"
       /\ overall = 89 => grade = "B"

\* the sections score 90, 100 and 100
C9_Witness ==
  /\ scores = [spfScore |-> 90, dkimScore |-> 100, dmarcScore |-> 100]
  /\ overall = 97
  /\ grade = "A"

\* C10: in every report the status of a section follows from its clamped
\* score alone: pass iff score >= 80, warn iff 60 <= score < 80, fail iff
\* score < 60.
C10_StatusFromScore ==
  Answered200 =>
    \A s \in Sections :
      LET sec == response.body[s]
      IN /\ sec.score \in MinScore..MaxScore
         /\ sec.status = "pass" <=> sec.score >= 80
         /\ sec.status = "warn" <=> (sec.score >= 60 /\ sec.score < 80)
         /\ sec.status = "fail" <=> sec.score < 60

\* a report with one section at each status, the warning one at exactly 60
C10_Witness ==
  /\ Answered200
  /\ response.body.dmarc.score = 60 /\ response.body.dmarc.status = "warn"
  /\ response.body.spf.status = "fail"
  /\ response.body.dkim.status = "pass"

\* ------------------------------------------------- the parsers, C11..C17

ParsedSpf == parseIn # Undefined /\ parsed # Undefined /\ parseIn.kind = "spf"
ParsedDmarc ==
  parseIn # Undefined /\ parsed # Undefined /\ parseIn.kind = "dmarc"

\* the records that start with the version prefix, in the order given
Matching(records, prefix) ==
  LET Starts(r) == startsWith(r, prefix)
  IN SelectSeq(records, Starts)

\* the k-th smallest element of a set of integers
Nth(S, k) == CHOOSE x \in S : Cardinality({y \in S : y < x}) = k - 1

\* the positions at which p occurs in s
Occurrences(s, p) == {i \in 1..Len(s) : OccursAt(s, p, i)}

\* C11: a parser returns present = FALSE exactly when no record of the set
\* starts with its version prefix (v=spf1, v=DMARC1); with no such record the
\* issue list is the single 'no record found' issue; two or more SPF records
\* give present = TRUE with the ambiguity issue.
C11_PresentIffMatch ==
  (parseIn # Undefined /\ parsed # Undefined) =>
    LET spf == parseIn.kind = "spf"
        n == Len(Matching(parseIn.records,
                          IF spf THEN SpfPrefix ELSE DmarcPrefix))
    IN /\ ~parsed.present <=> n = 0
       /\ n = 0 =>
            parsed.issues = <<IF spf THEN NoSpfIssue ELSE NoDmarcIssue>>
       /\ (spf /\ n >= 2) =>
            parsed.present /\ HasIssue(parsed.issues, MultipleSpfIssue)

\* parseSPF was given two records, neither of which starts with v=spf1
\* though one holds it after a space
C11_Witness ==
  /\ ParsedSpf
  /\ parseIn.records = <<<<" ","v","=","s","p","f","1"," ","-","a","l","l">>, <<"g","o","o","g","l","e","-","s","i","t","e","-","v","e","r","i","f","i","c","a","t","i","o","n","=","x">>>>
  /\ ~parsed.present
  /\ parsed.issues = <<NoSpfIssue>>

\* C12: given two or more records starting with v=spf1, parseSPF returns
\* present = TRUE, the first of them as record, no qualifier, no includes and
\* the ambiguity issue alone, whatever the records contain.
C12_AmbiguityShortCircuits ==
  (ParsedSpf /\ Len(Matching(parseIn.records, SpfPrefix)) >= 2) =>
    parsed = [present |-> TRUE,
              record |-> Matching(parseIn.records, SpfPrefix)[1],
              qualifier |-> "null",
              includes |-> <<>>,
              issues |-> <<MultipleSpfIssue>>]

\* two SPF records, the first with a qualifier and the second with a +all
C12_Witness ==
  /\ ParsedSpf
  /\ parseIn.records = <<<<"v","=","s","p","f","1"," ","i","n","c","l","u","d","e",":","_","s","p","f",".","g","o","o","g","l","e",".","c","o","m"," ","~","a","l","l">>, <<"v","=","s","p","f","1"," ","+","a","l","l">>>>
  /\ parsed.record = <<"v","=","s","p","f","1"," ","i","n","c","l","u","d","e",":","_","s","p","f",".","g","o","o","g","l","e",".","c","o","m"," ","~","a","l","l">>
  /\ parsed.qualifier = "null"
  /\ parsed.includes = <<>>
  /\ parsed.issues = <<MultipleSpfIssue>>

\* the qualifier of the rightmost of -all, ~all, ?all, +all in the record
RightmostQualifier(record) ==
  LET at == UNION {Occurrences(record, <<q, "a", "l", "l">>) :
                     q \in {"-", "~", "?", "+"}}
  IN IF at = {} THEN "null"
     ELSE LET q == record[Nth(at, Cardinality(at))]
          IN IF q = "-" THEN "fail"
             ELSE IF q = "~" THEN "softfail"
             ELSE IF q = "?" THEN "neutral"
             ELSE "pass"

\* C13 as stated: with exactly one SPF record the qualifier is that of the
\* rightmost of -all, ~all, ?all and +all in the record, and there is none when
\* none of the four occurs.
C13_QualifierIsRightmost ==
  (ParsedSpf /\ Len(Matching(parseIn.records, SpfPrefix)) = 1) =>
    parsed.qualifier =
      RightmostQualifier(Matching(parseIn.records, SpfPrefix)[1])

\* C14: with exactly one SPF record the issue list holds the 'missing all'
\* issue iff none of -all, ~all, ?all, +all occurs in the record, the 'too many
\* includes' issue iff more than 10 includes were extracted, the '+all' issue
\* iff the qualifier is pass, and nothing else; the record
\* 'v=spf1 include:_spf.google.com ~all' has no issue.
C14_SpfIssues ==
  (ParsedSpf /\ Len(Matching(parseIn.records, SpfPrefix)) = 1) =>
    LET record == Matching(parseIn.records, SpfPrefix)[1]
        noAll == \A q \in {"-", "~", "?", "+"} :
                   ~includes(record, <<q, "a", "l", "l">>)
    IN /\ parsed.issues =
            (IF noAll THEN <<MissingAllIssue>> ELSE <<>>)
            \o (IF Len(parsed.includes) > 10
                THEN <<TooManyIncludesIssue>> ELSE <<>>)
            \o (IF parsed.qualifier = "pass" THEN <<PlusAllIssue>> ELSE <<>>)
       /\ record = <<"v","=","s","p","f","1"," ","i","n","c","l","u","d","e",":","_","s","p","f",".","g","o","o","g","l","e",".","c","o","m"," ","~","a","l","l">> => parsed.issues = <<>>

\* a record with exactly 10 includes raises no issue
C14_Witness ==
  /\ ParsedSpf
  /\ Len(parseIn.records) = 1
  /\ Len(parsed.includes) = 10
  /\ parsed.qualifier = "softfail"
  /\ parsed.issues = <<>>

\* C15 as stated: with exactly one SPF record, includes holds one token for
\* each occurrence of 'include:' in the record, the run of non-whitespace
\* characters that follows it, in the order of the occurrences.
C15_IncludesPerOccurrence ==
  (ParsedSpf /\ Len(Matching(parseIn.records, SpfPrefix)) = 1) =>
    LET record == Matching(parseIn.records, SpfPrefix)[1]
        at == Occurrences(record, IncludeTag)
        After(i) == i + Len(IncludeTag)
    IN parsed.includes =
         [k \in 1..Cardinality(at) |->
            SubSeq(record, After(Nth(at, k)),
                   RunEnd(record, After(Nth(at, k)), Whitespace))]

\* the whitespace-separated words of a string
RECURSIVE Words(_)
Words(s) ==
  LET t == TrimStart(s)
  IN IF t = <<>> THEN <<>>
     ELSE LET e == RunEnd(t, 1, Whitespace)
          IN <<SubSeq(t, 1, e)>> \o Words(SubSeq(t, e + 1, Len(t)))

\* what follows the first 'include:' of a word, Null when the word has none or
\* nothing follows it
IncludeOf(word) ==
  LET at == Occurrences(word, IncludeTag)
  IN IF at = {} \/ Nth(at, 1) + Len(IncludeTag) > Len(word) THEN Null
     ELSE SubSeq(word, Nth(at, 1) + Len(IncludeTag), Len(word))

\* C15 amended: with exactly one SPF record, includes holds, in the order of
\* the record and with duplicates kept, one token for each whitespace-separated
\* word in which the first 'include:' is followed by at least one character:
\* the rest of that word. An 'include:' with nothing after it, or one inside
\* the token of an earlier one, adds nothing.
C15_IncludesPerWord ==
  (ParsedSpf /\ Len(Matching(parseIn.records, SpfPrefix)) = 1) =>
    LET words == Words(Matching(parseIn.records, SpfPrefix)[1])
        tokens == [k \in 1..Len(words) |-> IncludeOf(words[k])]
        Some(t) == t # Null
    IN parsed.includes = SelectSeq(tokens, Some)

\* 'include:' occurs twice in one word: one include, which holds the second
C15_Witness ==
  /\ ParsedSpf
  /\ parseIn.records = <<<<"v","=","s","p","f","1"," ","i","n","c","l","u","d","e",":","i","n","c","l","u","d","e",":","x"," ","~","a","l","l">>>>
  /\ parsed.includes = <<<<"i","n","c","l","u","d","e",":","x">>>>

\* C16 as stated: the policy the Report carries for the result of parseDMARC
\* is one of none, quarantine, reject.
C16_PolicyIsKnown ==
  ParsedDmarc =>
    (IF parsed.policy = Null THEN PolicyNone ELSE parsed.policy)
      \in {PolicyNone, PolicyQuarantine, PolicyReject}

\* the parts of s between the occurrences of the character sep
RECURSIVE SplitOn(_, _)
SplitOn(s, sep) ==
  LET e == RunEnd(s, 1, {sep})
  IN IF e >= Len(s) THEN <<s>>
     ELSE <<SubSeq(s, 1, e)>> \o SplitOn(SubSeq(s, e + 2, Len(s)), sep)

\* the value of the first tag of that name in a ';'-separated tag list, Null
\* when there is none
TagNamed(record, name) ==
  LET parts == SplitOn(record, ";")
      tags == [k \in 1..Len(parts) |-> trim(parts[k])]
      at == {k \in 1..Len(tags) : startsWith(tags[k], name \o <<"=">>)}
  IN IF at = {} THEN Null
     ELSE SubSeq(tags[Nth(at, 1)], Len(name) + 2, Len(tags[Nth(at, 1)]))

\* C17 as stated: for the first record starting with v=DMARC1, policy is the
\* value of its p tag (none when it has no p tag) and rua the value of its rua
\* tag (Null when it has none), whatever other tags the record carries; the
\* 'policy is none' issue is raised iff policy is none and the 'no aggregate
\* reporting' issue iff rua is Null.
C17_PolicyIsPTag ==
  (ParsedDmarc /\ parsed.present) =>
    LET record == Matching(parseIn.records, DmarcPrefix)[1]
        p == TagNamed(record, <<"p">>)
        rua == TagNamed(record, <<"r", "u", "a">>)
    IN /\ parsed.policy = (IF p = Null THEN PolicyNone ELSE p)
       /\ parsed.rua = rua
       /\ HasIssue(parsed.issues, PolicyNoneIssue) <=> parsed.policy = PolicyNone
       /\ HasIssue(parsed.issues, NoRuaIssue) <=> parsed.rua = Null

\* ----------------------------------------------------- checkDKIM, C18

\* C18: dkim.selectors of a report holds exactly the selectors whose lookup
\* returned at least one record and among them one containing 'k=' or 'p=', in
\* the order of DKIM_SELECTORS; present is TRUE iff it is not empty, and the
\* 'no DKIM selectors found' issue is raised iff it is empty.
C18_SelectorsInListOrder ==
  Answered200 =>
    LET Keyed(s) ==
          LET records == RecordsOrNone(dns[DkimHost(s, cleanDomain)])
          IN /\ Len(records) > 0
             /\ \E k \in 1..Len(records) :
                  \/ includes(records[k], <<"k", "=">>)
                  \/ includes(records[k], <<"p", "=">>)
        expected == SelectSeq(DKIM_SELECTORS, Keyed)
        dkim == response.body.dkim
    IN /\ dkim.selectors = expected
       /\ dkim.present <=> Len(expected) > 0
       /\ HasIssue(dkim.issues, NoDkimIssue) <=> Len(expected) = 0

\* selector1 and k1 are listed in that order; google, whose lookup was
\* rejected, is not listed
C18_Witness ==
  /\ Answered200
  /\ response.body.dkim.selectors = <<DKIM_SELECTORS[5], DKIM_SELECTORS[10]>>
  /\ response.body.dkim.present
  /\ response.body.dkim.issues = <<>>
  /\ ~dns[DkimHost(DKIM_SELECTORS[2], cleanDomain)].ok

\* --------------------------------------------------- getFix, C19 and C20

C20_NoIssuesNoChange ==
  (parseIn # Undefined /\ parsed # Undefined /\ fix # "null"
   /\ parsed.present /\ parsed.issues = <<>>) =>
    /\ parseIn.kind = "spf" => fix = "SPF record looks good"
    /\ (parseIn.kind = "dmarc" /\ parsed.policy = PolicyReject
        /\ parsed.rua # Null) =>
         fix = "DMARC policy is optimally configured"

\* ------------------------------------------------ validateDomain, C21

\* a name of at least two dot-separated labels of letters, digits and inner
\* hyphens, the last one of letters only and at least two long, of at most 253
\* characters
WellFormedDomain(s) ==
  LET labels == SplitOn(s, ".")
      Label(l) ==
        /\ Len(l) >= 1
        /\ \A k \in 1..Len(l) : l[k] \in AlNum \cup {"-"}
        /\ l[1] # "-" /\ l[Len(l)] # "-"
      last == labels[Len(labels)]
  IN /\ Len(s) <= 253
     /\ Len(labels) >= 2
     /\ \A k \in 1..Len(labels) : Label(labels[k])
     /\ Len(last) >= 2 /\ \A k \in 1..Len(last) : last[k] \in Alpha

\* C21 as stated: every well-formed domain name is accepted, whatever its
\* number of labels and whatever letters, digits and hyphens its labels
\* before the last hold: a request for it is not answered 400.
C21_WellFormedAccepted ==
  (pc = "done" /\ param # Null /\ WellFormedDomain(param)) =>
    response.status # 400

\* --------------------------------------------- calculateScore, C22..C24

\* x brought into lo..hi
ClampTo(x, lo, hi) == IF x < lo THEN lo ELSE IF x > hi THEN hi ELSE x

\* C22: the SPF score is 60, plus 20 if the record is present and has no
\* issue, plus 20 if the qualifier is fail or 10 if it is softfail, minus 10
\* for each issue, clamped to 0..100.
C22_SpfScore ==
  scores # Undefined =>
    LET spf == facts.spf
    IN scores.spfScore =
         ClampTo(60
                 + (IF spf.present /\ spf.issues = <<>> THEN 20 ELSE 0)
                 + (IF spf.qualifier = "fail" THEN 20 ELSE 0)
                 + (IF spf.qualifier = "softfail" THEN 10 ELSE 0)
                 - 10 * Len(spf.issues),
                 0, 100)

\* a present softfail record with one issue: no bonus for presence, 60
C22_Witness ==
  /\ scores # Undefined
  /\ facts.spf.present
  /\ facts.spf.qualifier = "softfail"
  /\ Len(facts.spf.issues) = 1
  /\ scores.spfScore = 60

\* C23: the DMARC score is 60, plus 20 if the record is present, plus 20 if
\* the policy is reject or 10 if it is quarantine, plus 10 if there is a
\* reporting address, minus 10 for each issue, clamped to 0..100: reject with
\* reporting and no issue sums to 110 and is scored 100.
C23_DmarcScore ==
  scores # Undefined =>
    LET dmarc == facts.dmarc
        sum == 60
               + (IF dmarc.present THEN 20 ELSE 0)
               + (IF dmarc.policy = PolicyReject THEN 20 ELSE 0)
               + (IF dmarc.policy = PolicyQuarantine THEN 10 ELSE 0)
               + (IF dmarc.rua # Null THEN 10 ELSE 0)
               - 10 * Len(dmarc.issues)
    IN /\ scores.dmarcScore = ClampTo(sum, 0, 100)
       /\ (dmarc.present /\ dmarc.policy = PolicyReject /\ dmarc.rua # Null
           /\ dmarc.issues = <<>>) => (sum = 110 /\ scores.dmarcScore = 100)

\* reject with a reporting address and no issue is scored 100, and with one
\* issue still 100
C23_Witness ==
  /\ scores # Undefined
  /\ facts.dmarc.present
  /\ facts.dmarc.policy = PolicyReject
  /\ facts.dmarc.rua # Null
  /\ Len(facts.dmarc.issues) = 1
  /\ scores.dmarcScore = 100

\* C24: the DKIM score is 60, plus 20 if a selector is present, plus 10 for
\* each selector found up to 20, minus 10 for each issue, clamped to 0..100.
C24_DkimScore ==
  scores # Undefined =>
    LET dkim == facts.dkim
        n == Len(dkim.selectors)
    IN scores.dkimScore =
         ClampTo(60
                 + (IF dkim.present THEN 20 ELSE 0)
                 + (IF n >= 2 THEN 20 ELSE 10 * n)
                 - 10 * Len(dkim.issues),
                 0, 100)

\* three selectors count like two: with one issue the score is 90
C24_Witness ==
  /\ scores # Undefined
  /\ facts.dkim.present
  /\ Len(facts.dkim.selectors) = 3
  /\ Len(facts.dkim.issues) = 1
  /\ scores.dkimScore = 90

\* ---------------------------------------------------- GET, C25..C27

\* the 14 names of a request, in the order the handler asks for them
LookupNames ==
  <<cleanDomain, DmarcHost(cleanDomain)>>
  \o [k \in 1..Len(DKIM_SELECTORS) |->
        DkimHost(DKIM_SELECTORS[k], cleanDomain)]

\* C25: an accepted request looks up 14 names, the domain, _dmarc.<domain>
\* and <selector>._domainkey.<domain> for each of the 12 selectors, each
\* exactly once, whatever the lookups answer; a request that is not accepted
\* looks up nothing.
C25_FourteenLookupsOnce ==
  /\ Len(LookupNames) = 14
  /\ Len(issued) <= 14
  /\ issued = SubSeq(LookupNames, 1, Len(issued))
  /\ \A i, j \in 1..Len(issued) : issued[i] = issued[j] => i = j
  /\ Answered200 => Len(issued) = 14
  /\ (pc = "done" /\ response.status # 200) => issued = <<>>

\* a report for which the apex lookup and the lookup of the first selector
\* were rejected: 14 lookups, none repeated
C25_Witness ==
  /\ Answered200
  /\ Len(issued) = 14
  /\ ~dns[cleanDomain].ok
  /\ ~dns[DkimHost(DKIM_SELECTORS[1], cleanDomain)].ok
  /\ dns[DmarcHost(cleanDomain)].ok

\* C26: in a report a section with present = FALSE has score 50 and status
\* fail; when no lookup returned a record the three scores are 50,
\* overallScore is 50 and overallGrade is F.
C26_AbsentScoresFifty ==
  Answered200 =>
    /\ \A s \in Sections :
         ~response.body[s].present =>
           (response.body[s].score = 50 /\ response.body[s].status = "fail")
    /\ (\A n \in DOMAIN dns : RecordsOrNone(dns[n]) = <<>>) =>
         /\ \A s \in Sections : response.body[s].score = 50
         /\ response.body.overallScore = 50
         /\ response.body.overallGrade = "F"

\* the apex and _dmarc lookups resolved with no record and no selector lookup
\* returned one: 50, 50, 50 and F
C26_Witness ==
  /\ Answered200
  /\ dns[cleanDomain].ok /\ dns[DmarcHost(cleanDomain)].ok
  /\ \A n \in DOMAIN dns : RecordsOrNone(dns[n]) = <<>>
  /\ \A s \in Sections : ~response.body[s].present
  /\ response.body.overallScore = 50
  /\ response.body.overallGrade = "F"

\* C27: when every lookup is settled at some time, a request is answered at
\* some time, with status 200, 400 or 500; once a response is there the
\* handler is over and the response never changes.
C27_OneResponse ==
  /\ (pc # "idle") ~>
       (pc = "done" /\ response # Undefined
        /\ (IF response = Undefined THEN FALSE
            ELSE response.status \in {200, 400, 500}))
  /\ [](response # Undefined <=> pc = "done")
  /\ [][response # Undefined => response' = response]_vars

\* a request was answered after all its 14 lookups were rejected
C27_Witness ==
  /\ pc = "done"
  /\ response # Undefined
  /\ EveryLookupFailed

\* ------------------------------------------------- the page, C28..C30

\* C28 as stated: comparisonResults never holds two entries with the same
\* domain, whatever accepted text the checks were started with.
C28_OneEntryPerDomain ==
  \A i, j \in 1..Len(comparisonResults) :
    comparisonResults[i].domain = comparisonResults[j].domain => i = j

\* C29 as stated: while no check is running loadingStep is the empty string;
\* no timer of a check sets a label once the check is over.
C29_StepClearedAfterCheck == ~loading => loadingStep = ""

\* C30: searchHistory holds no string twice and at most 10 entries; a check
\* puts its trimmed domain first, and nothing else changes the list; once
\* written, the text under 'mailshield-history' is the JSON of the list and
\* parses back to it, and before that the list is empty.
C30_HistoryKept ==
  /\ [](/\ \A i, j \in 1..Len(searchHistory) :
            searchHistory[i] = searchHistory[j] => i = j
        /\ Len(searchHistory) <= 10
        /\ storage = Null => searchHistory = <<>>
        /\ storage # Null =>
             /\ storage = JsonStringify(searchHistory)
             /\ JsonParse(storage) = searchHistory)
  /\ [][IF checks' # checks
        THEN searchHistory'[1] = trim(inputDomain)
        ELSE searchHistory' = searchHistory]_vars

\* the list was full and the domain checked was not in it: it is first, the
\* list still has 10 entries, and the oldest one is gone
C30_Witness ==
  /\ checks > 0
  /\ Len(searchHistory) = 10
  /\ searchHistory[1] = <<"A", ".", "c", "o">>
  /\ \A i \in 1..Len(searchHistory) :
       searchHistory[i] # <<"h", "9", ".", "c", "o">>
  /\ storage = JsonStringify(searchHistory)

====
